---- MODULE Spec2Model ----
(***************************************************************************)
(* Data Sweeper (src/data_sweeper.py): a Streamlit script that is run from *)
(* top to bottom on every UI interaction.  The state between two runs is   *)
(* the uploaded file and the widget values; the script's own variables     *)
(* (df, Q1, Q3, IQR, outliers, buffer) are rebuilt by every run.           *)
(*                                                                         *)
(* Numbers are exact rationals n/d (float64 rounding is not modelled).     *)
(* A cell is a record [k, n, d, s]: k = "num" (n/d), "str" (s) or "nan".   *)
(* A DataFrame is [names, cols, index]: column labels, one sequence of     *)
(* cells per column, and the row labels.                                   *)
(***************************************************************************)
EXTENDS Integers, Sequences, FiniteSets, TLC

\* Largest number of data rows of a generated upload.
MaxRows == 2

----------------------------------------------------------------------------
(* Cells and exact arithmetic *)

NaN == [k |-> "nan", n |-> 0, d |-> 1, s |-> ""]
Str(t) == [k |-> "str", n |-> 0, d |-> 1, s |-> t]

Abs(i) == IF i < 0 THEN -i ELSE i

RECURSIVE Gcd(_, _)
Gcd(a, b) == IF b = 0 THEN a ELSE Gcd(b, a % b)

\* The number n/d (d > 0) in lowest terms.
Rat(n, d) ==
    LET g == Gcd(Abs(n), d)
    IN  [k |-> "num", n |-> n \div g, d |-> d \div g, s |-> ""]

Whole(i) == Rat(i, 1)

IsNum(x) == x.k = "num"
IsStr(x) == x.k = "str"
IsNaN(x) == x.k = "nan"

RAdd(x, y) == Rat(x.n * y.d + y.n * x.d, x.d * y.d)
RSub(x, y) == Rat(x.n * y.d - y.n * x.d, x.d * y.d)
\* (p/q) * x
RScale(p, q, x) == Rat(p * x.n, q * x.d)
RLess(x, y) == x.n * y.d < y.n * x.d

\* Python orders str by code point: upper case before lower case.
StrRank(t) == CASE t = "Missing" -> 1 [] t = "x" -> 2 [] t = "y" -> 3 [] OTHER -> 4

\* x < y for two cells of one kind (a pandas comparison with NaN is False).
CellLess(x, y) ==
    CASE IsNum(x) /\ IsNum(y) -> RLess(x, y)
      [] IsStr(x) /\ IsStr(y) -> StrRank(x.s) < StrRank(y.s)
      [] OTHER -> FALSE

----------------------------------------------------------------------------
(* DataFrames *)

NRows(df) == Len(df.index)
NCols(df) == Len(df.names)
Row(df, i) == [c \in 1..Len(df.cols) |-> df.cols[c][i]]

\* The elements of a set of positions in ascending order.
Ascending(S) ==
    [r \in 1..Cardinality(S) |->
        CHOOSE i \in S : Cardinality({j \in S : j < i}) = r - 1]

\* Positional row selection (df.iloc[keep]): every column and the index
\* are taken at the same positions.
Take(df, keep) ==
    [names |-> df.names,
     cols  |-> [c \in 1..Len(df.cols) |->
                   [r \in 1..Len(keep) |-> df.cols[c][keep[r]]]],
     index |-> [r \in 1..Len(keep) |-> df.index[keep[r]]]]

\* The position of the first column labelled name.
ColPos(df, name) == CHOOSE c \in 1..Len(df.names) :
    /\ df.names[c] = name
    /\ \A e \in 1..(c - 1) : df.names[e] # name

Labelled(df, name) == {c \in 1..Len(df.names) : df.names[c] = name}

----------------------------------------------------------------------------
(* The uploaded file and its parse (lines 19-29) *)

\* No file in the uploader (uploaded_file is None).
NoFile == [ext |-> "", header |-> <<>>, rows |-> <<>>]

EmptyFrame == [names |-> <<>>, cols |-> <<>>, index |-> <<>>]

\* pd.read_csv / pd.read_excel: the header gives the column labels, the
\* records are turned into columns, and the rows are labelled 0..n-1.
\* An empty field is read as NaN.
Parse(file) ==
    [names |-> file.header,
     cols  |-> [c \in 1..Len(file.header) |->
                   [r \in 1..Len(file.rows) |-> file.rows[r][c]]],
     index |-> [r \in 1..Len(file.rows) |-> r - 1]]

\* A loader that hands back the frame the previous run left behind.
LoadStale(file, stale) == IF stale = EmptyFrame THEN Parse(file) ELSE stale

read_csv(file) == Parse(file)
read_excel(file) == Parse(file)

\* Lines 23-29.  The frame of a run is parsed from the uploaded file; the
\* frame the previous run ended with (stale) is not read.
Load(file, stale) ==
    IF file.ext = "csv" THEN read_csv(file) ELSE read_excel(file)

----------------------------------------------------------------------------
(* pandas operations used by the script *)

\* drop_duplicates(keep=False): every row that has a duplicate is dropped.
drop_duplicates_keep_none(df) ==
    Take(df, Ascending({i \in 1..NRows(df) :
                \A j \in (1..NRows(df)) \ {i} : Row(df, j) # Row(df, i)}))

\* df.drop_duplicates(): a row is dropped when an earlier row is equal to
\* it in every column (NaN counts as equal to NaN); labels are kept.
drop_duplicates(df) ==
    Take(df, Ascending({i \in 1..NRows(df) :
                \A j \in 1..(i - 1) : Row(df, j) # Row(df, i)}))

HasStr(col) == \E i \in 1..Len(col) : IsStr(col[i])
HasNum(col) == \E i \in 1..Len(col) : IsNum(col[i])

\* A column of dtype object holding text: numeric reductions raise on it.
IsTextColumn(col) == HasStr(col)

\* np.argsort as pandas' nargsort calls it (na_position = "last"): the
\* positions of the non-missing cells ordered by value, then the positions
\* of the missing cells in their original order.  kind = "quicksort" is
\* not a stable sort: where the build's quicksort is stable, ties keep
\* their order (stable = TRUE); where it is not, ties are modelled as
\* coming out reversed.
ArgSort(col, stable) ==
    LET S == {i \in 1..Len(col) : ~IsNaN(col[i])}
        M == {i \in 1..Len(col) : IsNaN(col[i])}
        Before(j, i) ==
            \/ CellLess(col[j], col[i])
            \/ /\ ~CellLess(col[i], col[j])
               /\ IF stable THEN j < i ELSE j > i
    IN  [r \in 1..Cardinality(S) |->
            CHOOSE i \in S :
                Cardinality({j \in S \ {i} : Before(j, i)}) = r - 1]
        \o Ascending(M)

\* The non-missing cells of a numeric column in ascending order.
SortedValues(col) ==
    LET order == ArgSort(col, TRUE)
        n == Cardinality({i \in 1..Len(col) : ~IsNaN(col[i])})
    IN  [r \in 1..n |-> col[order[r]]]

RECURSIVE SumCells(_, _)
SumCells(vals, i) ==
    IF i = 0 THEN Whole(0) ELSE RAdd(SumCells(vals, i - 1), vals[i])

\* The number of non-missing cells of a column.
Count(col) == Cardinality({i \in 1..Len(col) : ~IsNaN(col[i])})

\* The mean of a run of numbers.
Average(vals) ==
    IF Len(vals) = 0 THEN NaN
    ELSE RScale(1, Len(vals), SumCells(vals, Len(vals)))

\* Series.mean(): the mean of the non-missing cells, NaN when there is none.
Mean(col) == Average(SortedValues(col))

\* The middle one of n sorted numbers, or the mean of the two middle ones.
Middle(vals, n) ==
    IF n = 0 THEN NaN
    ELSE IF n % 2 = 1 THEN vals[(n + 1) \div 2]
    ELSE RScale(1, 2, RAdd(vals[n \div 2], vals[n \div 2 + 1]))

\* Series.median() of the non-missing cells.
Median(col) == Middle(SortedValues(col), Count(col))

\* Linear interpolation between closest ranks: the value at rank lo + rem/q
\* (0-based) of n sorted numbers.
Interpolate(vals, n, lo, rem, q) ==
    IF n = 0 THEN NaN
    ELSE IF rem = 0 THEN vals[lo + 1]
    ELSE RAdd(vals[lo + 1], RScale(rem, q, RSub(vals[lo + 2], vals[lo + 1])))

\* Series.quantile(p/q), linear interpolation: the value at rank (n-1)*p/q
\* of the sorted non-missing cells.
Quantile(col, p, q) ==
    Interpolate(SortedValues(col), Count(col),
                ((Count(col) - 1) * p) \div q, ((Count(col) - 1) * p) % q, q)

\* A fill that overwrites the cell whatever it holds.
FillCellAlways(x, value) == value

\* fillna on one cell.
FillCell(x, value) == IF IsNaN(x) THEN value ELSE x

\* df.fillna(value) with one scalar for the whole frame.
fillna_scalar(df, value) ==
    [df EXCEPT !.cols =
        [c \in 1..Len(df.cols) |->
            [r \in 1..Len(df.cols[c]) |-> FillCell(df.cols[c][r], value)]]]

\* df.mean() and df.median(): one value per column (a Series indexed by the
\* column labels); a text column has no entry, which fills as NaN does.
df_mean(df) ==
    [c \in 1..Len(df.cols) |->
        IF IsTextColumn(df.cols[c]) THEN NaN ELSE Mean(df.cols[c])]

df_median(df) ==
    [c \in 1..Len(df.cols) |->
        IF IsTextColumn(df.cols[c]) THEN NaN ELSE Median(df.cols[c])]

\* df.fillna(series) with one value per column; a NaN entry fills nothing.
fillna_series(df, series) ==
    [df EXCEPT !.cols =
        [c \in 1..Len(df.cols) |->
            [r \in 1..Len(df.cols[c]) |->
                IF IsNaN(series[c]) THEN df.cols[c][r]
                ELSE FillCell(df.cols[c][r], series[c])]]]

\* df.mean() / df.median() over a frame with a text column: pandas 2
\* raises TypeError; pandas 1 leaves the column out of the result.
StatRaises(df, platform) ==
    /\ ~platform.drops_nuisance
    /\ \E c \in 1..Len(df.cols) : IsTextColumn(df.cols[c])

\* Ordering str against a number raises TypeError.
SortRaises(col) == HasStr(col) /\ HasNum(col)

\* df.sort_values(by = name): the rows in the order of ArgSort, labels kept.
sort_values(df, name, platform) ==
    Take(df, ArgSort(df.cols[ColPos(df, name)], platform.stable))

\* df.rename(columns = col_map): every label is looked up in the mapping.
\* pandas does not check the new labels for duplicates.
rename(df, col_map) ==
    [df EXCEPT !.names = [c \in 1..Len(df.names) |-> col_map[df.names[c]]]]

\* The fences taken as exclusive bounds of the flagged values.
outlier_condition_inclusive(col, q1, q3, iqr) ==
    LET lower == RSub(q1, RScale(3, 2, iqr))
        upper == RAdd(q3, RScale(3, 2, iqr))
    IN  {i \in 1..Len(col) :
            /\ IsNum(col[i])
            /\ ~RLess(lower, col[i]) \/ ~RLess(col[i], upper)}

\* Line 85: the positions flagged by the fences.  Comparisons with NaN are
\* False, so a missing cell is never flagged.
outlier_condition(col, q1, q3, iqr) ==
    LET lower == RSub(q1, RScale(3, 2, iqr))
        upper == RAdd(q3, RScale(3, 2, iqr))
    IN  {i \in 1..Len(col) :
            /\ IsNum(col[i])
            /\ RLess(col[i], lower) \/ RLess(upper, col[i])}

\* df.to_csv(buffer, index=False) / df.to_excel(buffer, index=False): the
\* labels, then the records row by row; the row labels are not written.
Serialize(df, format) ==
    [format |-> format,
     header |-> df.names,
     rows   |-> [r \in 1..NRows(df) |-> Row(df, r)]]

EmptyBuffer == [format |-> "", header |-> <<>>, rows |-> <<>>]
EmptySeries == [index |-> <<>>, values |-> <<>>]

----------------------------------------------------------------------------
(* One run of the script (lines 21-108) *)

Range(seq) == {seq[i] : i \in 1..Len(seq)}

\* The script's variables at the start of a run, after the load.
Start(file, stale) ==
    LET loaded == Load(file, stale)
    IN  [df |-> loaded, halt |-> "ok",
         Q1 |-> NaN, Q3 |-> NaN, IQR |-> NaN,
         outliers |-> EmptySeries, buffer |-> EmptyBuffer,
         trail |-> <<[op |-> "load", df |-> loaded]>>]

\* df is rebound (or changed in place) by operation op.
Assign(st, op, new) ==
    [st EXCEPT !.df = new, !.trail = Append(@, [op |-> op, df |-> new])]

\* An exception ends the run at step at; df keeps its value.
Raise(st, at) == [st EXCEPT !.halt = at]

\* df.drop_duplicates() called without rebinding df.
RemoveDuplicatesStepUnbound(st, pressed) == st

\* Lines 44-46.
RemoveDuplicatesStep(st, pressed) ==
    IF "Remove Duplicates" \in pressed
    THEN Assign(st, "drop_duplicates", drop_duplicates(st.df))
    ELSE st

\* Lines 48-60.
MissingValuesStep(st, option, platform) ==
    CASE option = "Fill with Mean" ->
            IF StatRaises(st.df, platform) THEN Raise(st, "missing_values")
            ELSE Assign(st, "fillna", fillna_series(st.df, df_mean(st.df)))
      [] option = "Fill with Median" ->
            IF StatRaises(st.df, platform) THEN Raise(st, "missing_values")
            ELSE Assign(st, "fillna", fillna_series(st.df, df_median(st.df)))
      [] option = "Fill with 0" ->
            Assign(st, "fillna", fillna_scalar(st.df, Whole(0)))
      [] option = "Fill with 'Missing'" ->
            Assign(st, "fillna", fillna_scalar(st.df, Str("Missing")))
      [] OTHER -> st

\* Lines 65-68.
SortStep(st, sort_column, platform) ==
    IF sort_column = "None" THEN st
    ELSE IF SortRaises(st.df.cols[ColPos(st.df, sort_column)])
         THEN Raise(st, "sort")
         ELSE Assign(st, "sort_values",
                     sort_values(st.df, sort_column, platform))

\* Lines 70-74.
RenameStep(st, rename_columns, col_map) ==
    IF rename_columns THEN Assign(st, "rename", rename(st.df, col_map))
    ELSE st

\* Lines 86-93: the flagged rows are shown; the Remove Outliers button keeps
\* the rows that are not flagged.
ShowOutliers(st, col, cond, hit, pressed) ==
    IF "Remove Outliers" \in pressed
    THEN Assign([st EXCEPT !.outliers =
                    [index  |-> [r \in 1..Len(hit) |-> st.df.index[hit[r]]],
                     values |-> [r \in 1..Len(hit) |-> col[hit[r]]]]],
                "remove_outliers",
                Take(st.df, Ascending((1..NRows(st.df)) \ cond)))
    ELSE [st EXCEPT !.outliers =
             [index  |-> [r \in 1..Len(hit) |-> st.df.index[hit[r]]],
              values |-> [r \in 1..Len(hit) |-> col[hit[r]]]]]

\* Lines 84-85: IQR and the condition; all of them NaN / empty when the
\* column has no number.
Flag(st, col, q1, q3, iqr, cond, pressed) ==
    ShowOutliers([st EXCEPT !.Q1 = q1, !.Q3 = q3, !.IQR = iqr],
                 col, cond, Ascending(cond), pressed)

Fence(st, col, q1, q3, pressed) ==
    IF IsNaN(q1) THEN Flag(st, col, q1, q3, NaN, {}, pressed)
    ELSE Flag(st, col, q1, q3, RSub(q3, q1),
              outlier_condition(col, q1, q3, RSub(q3, q1)), pressed)

\* Lines 79-93.  A label that names several columns selects a DataFrame,
\* not a Series, and the display of it (line 89) fails on the duplicate
\* labels; quantile raises on a column holding text.
OutlierStep(st, outlier_column, pressed) ==
    IF outlier_column = "None" THEN st
    ELSE IF Cardinality(Labelled(st.df, outlier_column)) # 1
         THEN Raise(st, "outliers")
    ELSE IF HasStr(st.df.cols[ColPos(st.df, outlier_column)])
         THEN Raise(st, "outliers")
    ELSE Fence(st, st.df.cols[ColPos(st.df, outlier_column)],
               Quantile(st.df.cols[ColPos(st.df, outlier_column)], 1, 4),
               Quantile(st.df.cols[ColPos(st.df, outlier_column)], 3, 4),
               pressed)

\* Lines 98-108.
ExportStep(st, pressed) ==
    LET csv == IF "Download as CSV" \in pressed
               THEN [st EXCEPT !.buffer = Serialize(st.df, "csv")]
               ELSE st
    IN  IF "Download as Excel" \in pressed
        THEN [csv EXCEPT !.buffer = Serialize(st.df, "xlsx")]
        ELSE csv

\* The steps with the sort moved in front of the cleaning steps.
OrderSortFirst ==
    <<"sort", "remove_duplicates", "missing_values", "rename", "outliers",
      "export">>

\* The order of the steps in the script.
Order ==
    <<"remove_duplicates", "missing_values", "sort", "rename", "outliers",
      "export">>

Step(name, st, w, pressed, platform) ==
    IF st.halt # "ok" THEN st
    ELSE CASE name = "remove_duplicates" -> RemoveDuplicatesStep(st, pressed)
           [] name = "missing_values" ->
                  MissingValuesStep(st, w.missing_value_option, platform)
           [] name = "sort" -> SortStep(st, w.sort_column, platform)
           [] name = "rename" -> RenameStep(st, w.rename_columns, w.col_map)
           [] name = "outliers" -> OutlierStep(st, w.outlier_column, pressed)
           [] name = "export" -> ExportStep(st, pressed)

RECURSIVE RunSteps(_, _, _, _, _)
RunSteps(i, st, w, pressed, platform) ==
    IF i > Len(Order) THEN st
    ELSE RunSteps(i + 1, Step(Order[i], st, w, pressed, platform),
                  w, pressed, platform)

\* The whole script on an uploaded file.
Script(file, w, pressed, platform, stale) ==
    RunSteps(1, Start(file, stale), w, pressed, platform)

----------------------------------------------------------------------------
(* Widgets (Streamlit keeps their values between runs) *)

Options ==
    {"Do Nothing", "Fill with Mean", "Fill with Median", "Fill with 0",
     "Fill with 'Missing'"}

\* What can be typed into a "Rename <col>" text input.
RenameTexts == {"a", "b"}

\* Every widget at its default: the radio on its first option, the
\* selectboxes on "None", the checkbox unticked, each text input showing
\* the column's own label (line 72).
DefaultWidgets(file) ==
    [missing_value_option |-> "Do Nothing",
     sort_column    |-> "None",
     rename_columns |-> FALSE,
     col_map        |-> [c \in Range(file.header) |-> c],
     outlier_column |-> "None"]

\* list(df.columns) at line 79.
OutlierChoices(file, w) ==
    IF w.rename_columns
    THEN [c \in 1..Len(file.header) |-> w.col_map[file.header[c]]]
    ELSE file.header

\* A selectbox whose list of options changed is a new widget and shows its
\* default; text inputs that are not drawn (checkbox unticked) lose their
\* values.
Redraw(file, old, new) ==
    [new EXCEPT
        !.col_map = IF new.rename_columns THEN @
                    ELSE DefaultWidgets(file).col_map,
        !.outlier_column =
            IF OutlierChoices(file, new) = OutlierChoices(file, old)
            THEN @ ELSE "None"]

\* A widget the run did not reach is not drawn and loses its value.
Settle(file, w, halt) ==
    LET d == DefaultWidgets(file)
    IN  CASE halt = "missing_values" -> [d EXCEPT !.missing_value_option =
                                            w.missing_value_option]
          [] halt = "sort" -> [d EXCEPT !.missing_value_option =
                                            w.missing_value_option,
                                        !.sort_column = w.sort_column]
          [] OTHER -> w

\* Buttons that stay pressed once clicked.
TriggerLatched(button, pressed) == pressed \cup {button}

\* st.button returns True only in the run started by the click on it, and
\* for that button only.
Trigger(button, pressed) == {button}

----------------------------------------------------------------------------
(* Uploads *)

\* a,b / 1, / 2,3 / 2,3
EndToEnd ==
    [ext |-> "csv", header |-> <<"a", "b">>,
     rows |-> << <<Whole(1), NaN>>, <<Whole(2), Whole(3)>>,
                 <<Whole(2), Whole(3)>> >>]

\* one column 1, 2, 3, 4, 5, 100
Spread ==
    [ext |-> "xlsx", header |-> <<"a">>,
     rows |-> << <<Whole(1)>>, <<Whole(2)>>, <<Whole(3)>>, <<Whole(4)>>,
                 <<Whole(5)>>, <<Whole(100)>> >>]

\* a low and a high outlier, a missing number, a repeated record, and a
\* text column
TwoTails ==
    [ext |-> "csv", header |-> <<"a", "b">>,
     rows |-> << <<Whole(50), Str("x")>>, <<Whole(1), Str("y")>>,
                 <<Whole(51), Str("x")>>, <<NaN, Str("x")>>,
                 <<Whole(100), NaN>>, <<Whole(51), Str("x")>>,
                 <<Whole(52), Str("x")>> >>]

\* columns a and c
Pair ==
    [ext |-> "csv", header |-> <<"a", "c">>,
     rows |-> << <<Whole(1), Whole(2)>> >>]

\* The records of the generated files.
Records == {<<Whole(0), Str("x")>>, <<NaN, Str("x")>>, <<Whole(1), NaN>>}

\* Files with columns a and b of 1..MaxRows records, in every order.
Generated ==
    UNION {{[ext |-> "csv", header |-> <<"a", "b">>, rows |-> rows] :
                rows \in [1..n -> Records]} : n \in 1..MaxRows}

Uploads == Generated \cup {EndToEnd, Spread, TwoTails, Pair}

----------------------------------------------------------------------------
(* State *)

VARIABLES
    uploaded_file,  \* the file in the uploader, NoFile when there is none
    widgets,        \* the values of the sidebar widgets
    pressed,        \* the buttons that returned True in the last run
    platform,       \* the build: [stable, drops_nuisance]
    df,             \* the script's df when the last run ended
    Q1, Q3, IQR,    \* lines 82-84, NaN when not computed
    outliers,       \* line 86
    buffer,         \* lines 98-108
    halt,           \* "ok", or the step at which the last run raised
    trail           \* the values df took in the last run, in order

vars == <<uploaded_file, widgets, pressed, platform, df, Q1, Q3, IQR,
          outliers, buffer, halt, trail>>

Blank ==
    /\ uploaded_file = NoFile
    /\ widgets = DefaultWidgets(NoFile)
    /\ pressed = {}
    /\ df = EmptyFrame
    /\ Q1 = NaN /\ Q3 = NaN /\ IQR = NaN
    /\ outliers = EmptySeries
    /\ buffer = EmptyBuffer
    /\ halt = "ok"
    /\ trail = <<>>

Init ==
    /\ Blank
    /\ platform \in [stable : BOOLEAN, drops_nuisance : BOOLEAN]

\* A full run of the script on file with widget values w and buttons p.
Rerun(file, w, p) ==
    \E r \in {Script(file, w, p, platform, df)} :
        /\ uploaded_file' = file
        /\ widgets' = Settle(file, w, r.halt)
        /\ pressed' = p
        /\ df' = r.df
        /\ Q1' = r.Q1 /\ Q3' = r.Q3 /\ IQR' = r.IQR
        /\ outliers' = r.outliers
        /\ buffer' = r.buffer
        /\ halt' = r.halt
        /\ trail' = r.trail
        /\ UNCHANGED platform

\* The widgets drawn by the last run.
SortDrawn == uploaded_file # NoFile /\ halt # "missing_values"
RenameDrawn == SortDrawn /\ halt # "sort"
DownloadDrawn == uploaded_file # NoFile /\ halt = "ok"

\* Line 19: a file is put into the empty uploader.
UploadFile ==
    /\ uploaded_file = NoFile
    /\ \E file \in Uploads : Rerun(file, DefaultWidgets(file), {})

\* Line 19 and 142-143: the file is taken out of the uploader.
RemoveFile ==
    /\ uploaded_file # NoFile
    /\ uploaded_file' = NoFile
    /\ widgets' = DefaultWidgets(NoFile)
    /\ pressed' = {}
    /\ df' = EmptyFrame
    /\ Q1' = NaN /\ Q3' = NaN /\ IQR' = NaN
    /\ outliers' = EmptySeries
    /\ buffer' = EmptyBuffer
    /\ halt' = "ok"
    /\ trail' = <<>>
    /\ UNCHANGED platform

\* Line 44.
ClickRemoveDuplicates ==
    /\ uploaded_file # NoFile
    /\ Rerun(uploaded_file, widgets, Trigger("Remove Duplicates", pressed))

\* Line 48.
SelectMissingValueOption ==
    /\ uploaded_file # NoFile
    /\ \E o \in Options \ {widgets.missing_value_option} :
          Rerun(uploaded_file,
                [widgets EXCEPT !.missing_value_option = o], {})

\* Line 65.
SelectSortColumn ==
    /\ SortDrawn
    /\ \E c \in ({"None"} \cup Range(uploaded_file.header))
                    \ {widgets.sort_column} :
          Rerun(uploaded_file, [widgets EXCEPT !.sort_column = c], {})

\* Line 70.
ToggleRenameColumns ==
    /\ RenameDrawn
    /\ Rerun(uploaded_file,
             Redraw(uploaded_file, widgets,
                    [widgets EXCEPT !.rename_columns = ~@]), {})

\* Line 72: one text input is edited.
EditRenameText ==
    /\ RenameDrawn
    /\ widgets.rename_columns
    /\ \E c \in Range(uploaded_file.header) :
       \E t \in (RenameTexts \cup {c}) \ {widgets.col_map[c]} :
          Rerun(uploaded_file,
                Redraw(uploaded_file, widgets,
                       [widgets EXCEPT !.col_map[c] = t]), {})

\* Line 79.
SelectOutlierColumn ==
    /\ RenameDrawn
    /\ \E c \in ({"None"} \cup Range(OutlierChoices(uploaded_file, widgets)))
                    \ {widgets.outlier_column} :
          Rerun(uploaded_file, [widgets EXCEPT !.outlier_column = c], {})

\* Line 91: the button is drawn once the outliers have been shown.
ClickRemoveOutliers ==
    /\ DownloadDrawn
    /\ widgets.outlier_column # "None"
    /\ Rerun(uploaded_file, widgets, Trigger("Remove Outliers", pressed))

\* Line 100.
ClickDownloadCsv ==
    /\ DownloadDrawn
    /\ Rerun(uploaded_file, widgets, Trigger("Download as CSV", pressed))

\* Line 106.
ClickDownloadExcel ==
    /\ DownloadDrawn
    /\ Rerun(uploaded_file, widgets, Trigger("Download as Excel", pressed))

Next ==
    \/ UploadFile
    \/ RemoveFile
    \/ ClickRemoveDuplicates
    \/ SelectMissingValueOption
    \/ SelectSortColumn
    \/ ToggleRenameColumns
    \/ EditRenameText
    \/ SelectOutlierColumn
    \/ ClickRemoveOutliers
    \/ ClickDownloadCsv
    \/ ClickDownloadExcel

Spec == Init /\ [][Next]_vars

----------------------------------------------------------------------------
(* Properties *)

Ops(t) == [i \in 1..Len(t) |-> t[i].op]

\* The records of a frame, row by row.
RowsOf(frame) == [r \in 1..NRows(frame) |-> Row(frame, r)]

HasMissing(frame) ==
    \E c \in 1..Len(frame.cols) : \E r \in 1..Len(frame.cols[c]) :
        IsNaN(frame.cols[c][r])

\* The operation was asked for by the widget values of this run.
Selected(op) ==
    CASE op = "drop_duplicates" -> "Remove Duplicates" \in pressed
      [] op = "fillna" -> widgets.missing_value_option # "Do Nothing"
      [] op = "sort_values" -> widgets.sort_column # "None"
      [] op = "rename" -> widgets.rename_columns
      [] op = "remove_outliers" -> "Remove Outliers" \in pressed
      [] OTHER -> FALSE

\* C1: the dataset a run produces depends on the uploaded file and on the
\* options of that run only.  Every run starts from the parse of the
\* uploaded file, applies only operations selected in that run, and ends
\* with what a first run on that file with the same options would give,
\* whatever the earlier runs (failed ones included) did.
C1_RunFromUpload ==
    uploaded_file # NoFile =>
        LET first == Script(uploaded_file, widgets, pressed, platform,
                            EmptyFrame)
        IN  /\ trail[1] = [op |-> "load", df |-> Parse(uploaded_file)]
            /\ \A i \in 2..Len(trail) : Selected(trail[i].op)
            /\ df = trail[Len(trail)].df
            /\ df = first.df
            /\ halt = first.halt
            /\ outliers = first.outliers
            /\ buffer = first.buffer

\* C1 witness: "Fill with Mean" was selected in an earlier run, which
\* filled the missing cells; in this run (the click on Remove Duplicates)
\* the duplicates are dropped from the upload as parsed, missing cells
\* included, and the fill comes after.
C1_Witness ==
    /\ pressed = {"Remove Duplicates"}
    /\ widgets.missing_value_option = "Fill with Mean"
    /\ halt = "ok"
    /\ Len(trail) >= 3
    /\ trail[2].op = "drop_duplicates"
    /\ HasMissing(trail[2].df)
    /\ NRows(trail[2].df) < Len(uploaded_file.rows)
    /\ ~HasMissing(df)

Rank(op) ==
    CASE op = "load" -> 0
      [] op = "drop_duplicates" -> 1
      [] op = "fillna" -> 2
      [] op = "sort_values" -> 3
      [] op = "rename" -> 4
      [] OTHER -> 5

\* The frame the selected missing-value policy makes of prev.
Filled(prev, option) ==
    CASE option = "Fill with Mean" -> fillna_series(prev, df_mean(prev))
      [] option = "Fill with Median" -> fillna_series(prev, df_median(prev))
      [] option = "Fill with 0" -> fillna_scalar(prev, Whole(0))
      [] option = "Fill with 'Missing'" -> fillna_scalar(prev, Str("Missing"))
      [] OTHER -> prev

\* C3: the operations of one run are applied in the order Remove
\* Duplicates, Handle Missing Values, Sort, Rename Columns, each to the
\* dataset the one before it produced; when all four are selected and none
\* raises, all four are applied.
C3_PipelineOrder ==
    /\ \A i \in 2..Len(trail) :
          LET prev == trail[i - 1].df
              cur == trail[i]
          IN  /\ Rank(trail[i - 1].op) < Rank(cur.op)
              /\ cur.op = "drop_duplicates" => cur.df = drop_duplicates(prev)
              /\ cur.op = "fillna" =>
                    cur.df = Filled(prev, widgets.missing_value_option)
              /\ cur.op = "sort_values" =>
                    cur.df = sort_values(prev, widgets.sort_column, platform)
              /\ cur.op = "rename" => cur.df = rename(prev, widgets.col_map)
    /\ ( /\ uploaded_file # NoFile
         /\ halt = "ok"
         /\ "Remove Duplicates" \in pressed
         /\ widgets.missing_value_option # "Do Nothing"
         /\ widgets.sort_column # "None"
         /\ widgets.rename_columns )
       => Ops(trail) = <<"load", "drop_duplicates", "fillna", "sort_values",
                         "rename">>

\* C3 witness: all four operations applied in one run, on an upload where
\* the order shows: rows that differ only by a missing cell are both kept
\* by Remove Duplicates and are made equal by the fill that follows.
C3_Witness ==
    /\ Ops(trail) = <<"load", "drop_duplicates", "fillna", "sort_values",
                      "rename">>
    /\ widgets.missing_value_option = "Fill with 0"
    /\ trail[3].df # drop_duplicates(fillna_scalar(trail[1].df, Whole(0)))
    /\ df.names # uploaded_file.header

Zero(x) == IF IsNaN(x) THEN Whole(0) ELSE x

\* The records of the uploaded file without the repeats of an earlier
\* record, each missing field replaced by 0.
DistinctZeroFilled(file) ==
    LET keep == Ascending({i \in 1..Len(file.rows) :
                    \A j \in 1..(i - 1) : file.rows[j] # file.rows[i]})
    IN  [r \in 1..Len(keep) |->
            [c \in 1..Len(file.header) |-> Zero(file.rows[keep[r]][c])]]

C8_FillFrame ==
    \A i \in 2..Len(trail) :
        trail[i].op = "fillna" =>
            LET prev == trail[i - 1].df
                cur == trail[i].df
            IN  /\ NRows(cur) = NRows(prev)
                /\ NCols(cur) = NCols(prev)
                /\ Len(cur.cols) = Len(prev.cols)
                /\ cur.names = prev.names
                /\ cur.index = prev.index
                /\ \A c \in 1..Len(prev.cols) :
                      /\ Len(cur.cols[c]) = Len(prev.cols[c])
                      /\ \A r \in 1..Len(prev.cols[c]) :
                            ~IsNaN(prev.cols[c][r]) =>
                                cur.cols[c][r] = prev.cols[c][r]

\* C8 witness: a fill with the column mean that changed a missing cell of
\* a column that also holds cells that are not missing.
C8_Witness ==
    /\ widgets.missing_value_option = "Fill with Mean"
    /\ \E i \in 2..Len(trail) :
          /\ trail[i].op = "fillna"
          /\ \E c \in 1..Len(trail[i].df.cols) :
             \E r, q \in 1..NRows(trail[i].df) :
                /\ IsNaN(trail[i - 1].df.cols[c][r])
                /\ IsNum(trail[i].df.cols[c][r])
                /\ IsNum(trail[i - 1].df.cols[c][q])

\* C9: removing duplicates from a dataset that Remove Duplicates produced
\* changes nothing; what Remove Duplicates keeps are the rows that no
\* earlier row equals in every column, in their original order.
C9_DedupIdempotent ==
    \A i \in 2..Len(trail) :
        trail[i].op = "drop_duplicates" =>
            LET prev == trail[i - 1].df
                cur == trail[i].df
            IN  /\ drop_duplicates(cur) = cur
                /\ cur.names = prev.names
                /\ \A r, q \in 1..NRows(cur) :
                      r < q => /\ Row(cur, r) # Row(cur, q)
                               /\ cur.index[r] < cur.index[q]
                /\ \A r \in 1..NRows(prev) :
                      /\ \E q \in 1..NRows(cur) : Row(cur, q) = Row(prev, r)
                      /\ (\E q \in 1..NRows(cur) :
                              cur.index[q] = prev.index[r])
                         <=> (\A j \in 1..(r - 1) : Row(prev, j) # Row(prev, r))

\* C9 witness: Remove Duplicates dropped a row.
C9_Witness ==
    /\ Len(trail) >= 2
    /\ trail[2].op = "drop_duplicates"
    /\ NRows(trail[2].df) < NRows(trail[1].df)
    /\ NRows(trail[2].df) > 1

\* C10: what is serialized for download is the upload with the sticky
\* selections (missing-value policy, sort, rename) applied and nothing
\* else: a download run is the run of one download button alone, so every
\* record of the upload, repeated rows and outliers included, is written.
C10_ExportKeepsAllRows ==
    buffer # EmptyBuffer =>
        LET sticky == Script(uploaded_file, widgets, {}, platform, EmptyFrame)
        IN  /\ pressed \in {{"Download as CSV"}, {"Download as Excel"}}
            /\ buffer.header = sticky.df.names
            /\ buffer.rows = RowsOf(sticky.df)
            /\ Len(buffer.rows) = Len(uploaded_file.rows)
            /\ ~(\E i \in 1..Len(trail) :
                    trail[i].op \in {"drop_duplicates", "remove_outliers"})

\* C10 witness: a download of an upload with a repeated record and, in the
\* selected column, outliers shown on the page: all of them are written.
C10_Witness ==
    /\ buffer # EmptyBuffer
    /\ \E r, q \in 1..Len(buffer.rows) :
          r # q /\ buffer.rows[r] = buffer.rows[q]
    /\ Len(outliers.values) > 0
    /\ \A o \in 1..Len(outliers.values) :
          \E r \in 1..Len(buffer.rows) :
          \E c \in 1..Len(buffer.header) :
              buffer.rows[r][c] = outliers.values[o]

\* The frame the outlier step worked on.
BeforeRemoval ==
    IF "Remove Outliers" \in pressed /\ Len(trail) > 1
    THEN trail[Len(trail) - 1].df
    ELSE df

\* C7: with lower = Q1 - 1.5*IQR and upper = Q3 + 1.5*IQR of the chosen
\* column, the rows shown as outliers are exactly those whose value is
\* below lower or above upper (a value on a fence is not one), and Remove
\* Outliers leaves exactly the other rows, in order; for the column
\* 1, 2, 3, 4, 5, 100: Q1 = 2.25, Q3 = 4.75, IQR = 2.5, the fences are
\* -1.5 and 8.5, and 100 alone is flagged.
C7_OutlierFence ==
    ( /\ uploaded_file # NoFile
      /\ widgets.outlier_column # "None"
      /\ halt = "ok" )
    => LET frame == BeforeRemoval
           col == frame.cols[ColPos(frame, widgets.outlier_column)]
           lower == RSub(Q1, RScale(3, 2, IQR))
           upper == RAdd(Q3, RScale(3, 2, IQR))
           flagged == IF IsNaN(Q1) THEN {}
                      ELSE {r \in 1..Len(col) :
                              /\ IsNum(col[r])
                              /\ RLess(col[r], lower) \/ RLess(upper, col[r])}
           kept == (1..Len(col)) \ flagged
       IN  /\ ~IsNaN(Q1) => IQR = RSub(Q3, Q1)
           /\ Len(outliers.index) = Cardinality(flagged)
           /\ \A r \in 1..Len(col) :
                 r \in flagged <=>
                     \E o \in 1..Len(outliers.index) :
                         /\ outliers.index[o] = frame.index[r]
                         /\ outliers.values[o] = col[r]
           /\ "Remove Outliers" \in pressed =>
                 /\ Ops(trail)[Len(trail)] = "remove_outliers"
                 /\ df.names = frame.names
                 /\ NRows(df) = Cardinality(kept)
                 /\ \A r \in 1..NRows(df) :
                       \E q \in kept :
                           /\ df.index[r] = frame.index[q]
                           /\ Row(df, r) = Row(frame, q)
                           /\ Cardinality({j \in kept : j < q}) = r - 1
           /\ uploaded_file = Spread =>
                 /\ Q1 = Rat(9, 4) /\ Q3 = Rat(19, 4) /\ IQR = Rat(5, 2)
                 /\ lower = Rat(-3, 2) /\ upper = Rat(17, 2)
                 /\ outliers.values = <<Whole(100)>>

\* C7 witness: Remove Outliers on the column 1, 2, 3, 4, 5, 100.
C7_Witness ==
    /\ uploaded_file = Spread
    /\ pressed = {"Remove Outliers"}
    /\ halt = "ok"
    /\ outliers.values = <<Whole(100)>>
    /\ RowsOf(df) = << <<Whole(1)>>, <<Whole(2)>>, <<Whole(3)>>,
                         <<Whole(4)>>, <<Whole(5)>> >>

\* The labels the rename map gives the columns of the upload.
Targets == [c \in 1..Len(uploaded_file.header) |->
               widgets.col_map[uploaded_file.header[c]]]

Repeats(names) ==
    \E c, e \in 1..Len(names) : c # e /\ names[c] = names[e]

\* C4: Rename Columns is atomic: when the rename map gives two columns the
\* same label the run fails at the rename and the labels stay as they
\* were; otherwise every column carries its new label.
C4_RenameAtomic ==
    (uploaded_file # NoFile /\ widgets.rename_columns) =>
        IF Repeats(Targets)
        THEN halt = "rename" /\ df.names = uploaded_file.header
        ELSE df.names = Targets

\* C5: in every dataset state of a run all columns have the length of the
\* index and no two columns carry the same label.
C5_WellFormed ==
    \A i \in 1..Len(trail) :
        LET frame == trail[i].df
        IN  /\ Len(frame.cols) = Len(frame.names)
            /\ \A c \in 1..Len(frame.cols) :
                  Len(frame.cols[c]) = Len(frame.index)
            /\ ~Repeats(frame.names)

\* The position of label in the index of frame.
PosOf(frame, label) == CHOOSE r \in 1..NRows(frame) : frame.index[r] = label

====
